---- MODULE Spec2Model ----
(***************************************************************************)
(* A model of the EdgeOne proxy functions: the two query-parameter proxies *)
(* (onRequest in functions/proxy.js and in the second proxy file) and the  *)
(* GitHub-routing handler (handleRequest, proxyRequest, proxyFetch,        *)
(* processResponse).  One behaviour is one invocation: an inbound request  *)
(* arrives, the handler runs up to its first outbound fetch, the upstream  *)
(* answers (or the transport rejects), and the handler resumes.            *)
(*                                                                         *)
(* Strings that the code takes apart (paths, URLs, Location values) are    *)
(* records [scheme, host, segs]: the text scheme "://" host "/" seg1 "/"   *)
(* seg2 ...  An empty last segment is a trailing slash.  Header            *)
(* collections are functions from lower-case header names to values.       *)
(***************************************************************************)
EXTENDS Integers, Sequences, FiniteSets, TLC

VARIABLES
    Config,     \* proxy.js:220  { jsdelivr }
    whiteList,  \* proxy.js:225  sequence of whitelisted path parts
    pc,         \* where the invocation is: idle, awaiting a fetch, done
    handler,    \* which entry point took the request
    req,        \* the inbound request
    out,        \* the last outbound request handed to fetch
    fetches,    \* outbound fetches issued for this request (saturates at MaxFetches)
    received,   \* the last upstream response handed to processResponse
    resp        \* the response returned to the client

vars == <<Config, whiteList, pc, handler, req, out, fetches, received, resp>>

\* The fetch counter is exact below this bound and saturates at it.
MaxFetches == 4

---------------------------------------------------------------------------
(* Strings                                                                 *)

Str(scheme, host, segs) == [scheme |-> scheme, host |-> host, segs |-> segs]

EmptyStr == Str("", "", <<>>)

\* The lower-case form of a path segment (the regular expressions carry /i).
Lower(t) == IF t = "BLOB" THEN "blob" ELSE t

\* Segments that begin with "info" or "git-", and with "tags".
InfoGitPrefixed == {"info", "git-upload-pack"}
TagsPrefixed == {"tags"}

\* Number of non-empty segments (a trailing slash adds an empty one).
NonEmptyLen(segs) == Cardinality({i \in 1..Len(segs) : segs[i] # ""})

\* ^(?:https?:\/\/)?  followed by the host and a slash
SchemeOptional(s) == s.scheme \in {"", "http", "https"}

\* .+?\/.+?\/KEY\/.*  : some segment from the third on is KEY and a slash follows it
HasSegmentFollowed(s, keys) ==
    \E i \in 3..(Len(s.segs) - 1) : Lower(s.segs[i]) \in keys

\* .+?\/.+?\/(?:PREFIX).*  : some segment from the third on begins with PREFIX
HasSegmentPrefixed(s, prefixed) ==
    \E i \in 3..Len(s.segs) : Lower(s.segs[i]) \in prefixed

exp1(s) == /\ SchemeOptional(s) /\ s.host = "github.com"
           /\ HasSegmentFollowed(s, {"releases", "archive"})

exp2(s) == /\ SchemeOptional(s) /\ s.host = "github.com"
           /\ HasSegmentFollowed(s, {"blob", "raw"})

exp3(s) == /\ SchemeOptional(s) /\ s.host = "github.com"
           /\ HasSegmentPrefixed(s, InfoGitPrefixed)

exp4(s) == /\ SchemeOptional(s)
           /\ s.host \in {"raw.githubusercontent.com", "raw.github.com"}
           /\ NonEmptyLen(s.segs) >= 4

exp5(s) == /\ SchemeOptional(s)
           /\ s.host \in {"gist.githubusercontent.com", "gist.github.com"}
           /\ NonEmptyLen(s.segs) >= 3

exp6(s) == /\ SchemeOptional(s) /\ s.host = "github.com"
           /\ HasSegmentPrefixed(s, TagsPrefixed)

checkUrl(url) ==
    exp1(url) \/ exp2(url) \/ exp3(url) \/ exp4(url) \/ exp5(url) \/ exp6(url)

\* new URL(urlStr): a string without a scheme or a host does not parse; the
\* href of a URL with an empty path ends in a slash.
createUrl(urlStr) ==
    IF urlStr.scheme = "" \/ urlStr.host = ""
    THEN [ok |-> FALSE, href |-> EmptyStr, hostname |-> ""]
    ELSE [ok |-> TRUE,
          href |-> IF urlStr.segs = <<>> THEN Str(urlStr.scheme, urlStr.host, <<"">>)
                   ELSE urlStr,
          hostname |-> urlStr.host]

\* path.replace(/^https?:\/+/, 'https://')
NormalizeScheme(path) ==
    IF path.scheme \in {"http", "https"} THEN [path EXCEPT !.scheme = "https"] ELSE path

\* The hosts of the model that begin with each prefix the code tests.
HostsWithPrefix(prefix) ==
    CASE prefix = "github" -> {"github.com"}
      [] prefix = "github.com" -> {"github.com"}
      [] prefix = "raw.githubusercontent.com" -> {"raw.githubusercontent.com"}
      [] prefix = "gist.github.com" -> {"gist.github.com"}
      [] OTHER -> {}

\* str.startsWith(prefix), for a prefix that is the beginning of a host name:
\* the string has no scheme in front and its host begins with the prefix.
StartsWith(str, prefix) ==
    /\ str.scheme = ""
    /\ str.host \in HostsWithPrefix(prefix)

\* targetUrl.includes(item) for a whitelist item '/name/'
Includes(target, item) ==
    \E i \in 1..(Len(target.segs) - 1) : target.segs[i] = item

---------------------------------------------------------------------------
(* Header collections                                                      *)

EmptyHeaders == [n \in {} |-> ""]

HSet(h, n, v) == [x \in (DOMAIN h) \cup {n} |-> IF x = n THEN v ELSE h[x]]
HDelete(h, n) == [x \in (DOMAIN h) \ {n} |-> h[x]]
HHas(h, n) == n \in DOMAIN h

NoLoc == [present |-> FALSE, prefix |-> "", url |-> EmptyStr]
Loc(prefix, url) == [present |-> TRUE, prefix |-> prefix, url |-> url]

---------------------------------------------------------------------------
(* Configuration of the GitHub-routing handler                             *)

PREFIX == "/"

PROXY_HOST == "proxy.example"

PREFLIGHT_INIT ==
    [status |-> 204,
     headers |-> ("access-control-allow-origin" :> "*")
              @@ ("access-control-allow-methods" :> "GET,POST,PUT,PATCH,TRACE,DELETE,HEAD,OPTIONS")
              @@ ("access-control-max-age" :> "1728000"),
     location |-> NoLoc,
     body |-> "null"]

NoResp == [status |-> 0, headers |-> EmptyHeaders, location |-> NoLoc, body |-> "null"]

NoOut == [url |-> EmptyStr, method |-> "", headers |-> EmptyHeaders,
          body |-> "none", redirect |-> ""]

\* What a handler does when it runs: returns a response, throws, or issues a
\* fetch and suspends until the upstream answers.
Return(r) == [kind |-> "return", resp |-> r, out |-> NoOut, at |-> "done"]
Throw == [kind |-> "throw", resp |-> NoResp, out |-> NoOut, at |-> "done"]
Await(o, at) == [kind |-> "await", resp |-> NoResp, out |-> o, at |-> at]

makeResponse(body, status, headers) ==
    [status |-> status,
     headers |-> HSet(headers, "access-control-allow-origin", "*"),
     location |-> NoLoc,
     body |-> body]

\* Response.redirect(url, status): throws when the url does not parse
Redirect(url, status) ==
    IF createUrl(url).ok
    THEN Return([status |-> status, headers |-> EmptyHeaders,
                 location |-> Loc("", createUrl(url).href), body |-> "null"])
    ELSE Throw

---------------------------------------------------------------------------
(* The GitHub-routing handler                                              *)

\* Index of the first '/blob/' of the path: a segment "blob" with a slash
\* after it (0 when there is none).  String.replace is case-sensitive and
\* replaces the first occurrence only.
FirstBlob(path) ==
    LET at == {i \in 1..(Len(path.segs) - 1) : path.segs[i] = "blob"}
    IN IF at = {} THEN 0 ELSE CHOOSE i \in at : \A j \in at : i <= j

\* path.replace('/blob/', '/raw/')
ReplaceBlobByRaw(path) ==
    IF FirstBlob(path) = 0 THEN path
    ELSE [path EXCEPT !.segs[FirstBlob(path)] = "raw"]

\* path.replace('/blob/', '@').replace(/^(?:https?:\/\/)?github\.com/,
\* 'https://cdn.jsdelivr.net/gh'): the text before '/blob/' and the text after
\* it become one segment around '@', and "gh" stands where the host stood.
\* The second replace is case-sensitive; it applies to every path exp2
\* matches here, the hosts of the model being lower-case.
JsDelivrUrl(path) ==
    LET i == FirstBlob(path)
        full == <<"gh">> \o path.segs
    IN Str("https", "cdn.jsdelivr.net",
           IF i = 0 THEN full
           ELSE SubSeq(full, 1, i - 1)
                \o << full[i] \o "@" \o full[i + 2] >>
                \o SubSeq(full, i + 3, Len(full)))

\* proxyFetch up to its await of fetch.  originalRequest is the inbound
\* Request on the first hop and the object literal { method, headers } on a
\* followed redirect; the literal has no arrayBuffer(), so reading the body
\* of a non-GET/HEAD request throws there, as does targetUrl.href when
\* createUrl returned null.
proxyFetch(targetUrl, originalRequest, method, headers) ==
    IF method \notin {"GET", "HEAD"} /\ originalRequest = "literal" THEN Throw
    ELSE IF ~targetUrl.ok THEN Throw
    ELSE Await([url |-> targetUrl.href,
                method |-> method,
                headers |-> headers,
                body |-> IF method \notin {"GET", "HEAD"} THEN "arrayBuffer" ELSE "none",
                redirect |-> "manual"],
               "awaitProxyFetch")

proxyRequest(request, targetUrl) ==
    IF /\ request.method = "OPTIONS"
       /\ HHas(request.headers, "access-control-request-headers")
    THEN Return(PREFLIGHT_INIT)
    ELSE IF /\ Len(whiteList) > 0
            /\ ~\E k \in 1..Len(whiteList) : Includes(targetUrl, whiteList[k])
    THEN Return(makeResponse("Access blocked by whitelist", 403, EmptyHeaders))
    ELSE LET finalUrl == IF StartsWith(targetUrl, "github")
                         THEN [targetUrl EXCEPT !.scheme = "https"]
                         ELSE targetUrl
             urlObj == createUrl(finalUrl)
         IN IF ~urlObj.ok
            THEN Return(makeResponse("Invalid URL", 400, EmptyHeaders))
            ELSE proxyFetch(urlObj, "request", request.method, request.headers)

\* The catch of handleRequest.
Catch502(outcome) ==
    IF outcome.kind = "throw"
    THEN Return(makeResponse("EdgeOne proxy error", 502, EmptyHeaders))
    ELSE outcome

Slash == Str("", "", <<"">>)

handleRequest(request) ==
    LET path == NormalizeScheme(request.path)
    IN Catch502(
       IF request.q # ""
       THEN Redirect(Str("https", PROXY_HOST, <<request.q>>), 301)
       ELSE IF path = EmptyStr \/ path = Slash
       THEN Return(makeResponse("help page", 200,
                                ("content-type" :> "text/html; charset=utf-8")))
       ELSE IF exp1(path) \/ exp3(path) \/ exp4(path) \/ exp5(path) \/ exp6(path)
       THEN proxyRequest(request, path)
       ELSE IF exp2(path)
       THEN IF Config.jsdelivr # 0
            THEN Redirect(JsDelivrUrl(path), 302)
            ELSE proxyRequest(request, ReplaceBlobByRaw(path))
       ELSE IF \/ StartsWith(path, "github.com")
               \/ StartsWith(path, "raw.githubusercontent.com")
               \/ StartsWith(path, "gist.github.com")
       THEN proxyRequest(request, path)
       ELSE IF createUrl(path).ok
       THEN Await([url |-> createUrl(path).href,
                   method |-> request.method,
                   headers |-> request.headers,
                   body |-> IF request.hasBody THEN "stream" ELSE "none",
                   redirect |-> "request"],
                  "awaitGeneric")
       ELSE Return(makeResponse("Invalid URL format", 400, EmptyHeaders)))

\* processResponse, with the recursive proxyFetch of a followed redirect up
\* to its await of fetch.
processResponse(response, requestInit) ==
    LET rewritten == IF response.location.present
                     THEN Loc(PREFIX, response.location.url)
                     ELSE response.location
        cors == HSet(HSet(HSet(response.headers,
                    "access-control-expose-headers", "*"),
                    "access-control-allow-origin", "*"),
                    "accept-language", "en-us")
        stripped == HDelete(HDelete(HDelete(cors,
                    "content-security-policy"),
                    "content-security-policy-report-only"),
                    "clear-site-data")
    IN IF response.location.present /\ ~checkUrl(response.location.url)
       THEN proxyFetch(createUrl(response.location.url), "literal",
                       requestInit.method, requestInit.headers)
       ELSE Return([status |-> response.status, headers |-> stripped,
                    location |-> rewritten, body |-> "upstream"])

---------------------------------------------------------------------------
(* The query-parameter proxy of functions/proxy.js                         *)

NoParam == [present |-> FALSE, value |-> EmptyStr]
Param(v) == [present |-> TRUE, value |-> v]

\* !searchParams.get('url'): null, or the empty string
Missing(param) == ~param.present \/ param.value = EmptyStr

JsonError(error, status) ==
    [status |-> status,
     headers |-> ("content-type" :> "application/json")
              @@ ("access-control-allow-origin" :> "*"),
     location |-> NoLoc,
     body |-> error]

handleCORSPreflight ==
    [status |-> 204,
     headers |-> ("access-control-allow-origin" :> "*")
              @@ ("access-control-allow-methods" :> "GET, POST, PUT, DELETE, PATCH, OPTIONS, HEAD")
              @@ ("access-control-allow-headers" :> "Content-Type, Authorization, X-Requested-With, Accept, Origin, User-Agent, Cache-Control, Pragma")
              @@ ("access-control-max-age" :> "86400")
              @@ ("access-control-allow-credentials" :> "false"),
     location |-> NoLoc,
     body |-> "null"]

headersToForward ==
    {"accept", "accept-language", "authorization", "cache-control", "content-type",
     "pragma", "user-agent", "x-requested-with", "x-api-key", "x-auth-token"}

buildForwardHeaders(request) ==
    LET h == request.headers
        copied == [n \in {m \in headersToForward \cap DOMAIN h : h[m] # ""} |-> h[n]]
        for == IF HHas(h, "cf-connecting-ip") /\ h["cf-connecting-ip"] # ""
               THEN h["cf-connecting-ip"] ELSE "unknown"
        forwarded == HSet(HSet(HSet(copied,
                        "x-forwarded-for", for),
                        "x-forwarded-proto", "https"),
                        "x-forwarded-host", PROXY_HOST)
    IN IF HHas(forwarded, "user-agent") THEN forwarded
       ELSE HSet(forwarded, "user-agent", "EdgeOne-Proxy/1.0")

\* Header names that begin with "cf-".
CfPrefixed == {"cf-ray", "cf-connecting-ip"}

buildResponseHeaders(response) ==
    LET skipped == {"set-cookie", "cookie", "server", "x-powered-by"} \cup CfPrefixed
        kept == [n \in (DOMAIN response.headers) \ skipped |-> response.headers[n]]
    IN HSet(HSet(HSet(HSet(kept,
            "access-control-allow-origin", "*"),
            "access-control-allow-methods", "GET, POST, PUT, DELETE, PATCH, OPTIONS, HEAD"),
            "access-control-allow-headers", "Content-Type, Authorization, X-Requested-With, Accept, Origin, User-Agent, Cache-Control, Pragma"),
            "x-proxy-by", "EdgeOne-Enhanced-Proxy")

\* onRequest with the preflight answered before the 'url' parameter is looked at
onRequestPreflightFirst(request) ==
    LET targetUrl == createUrl(request.urlParam.value)
    IN IF request.method = "OPTIONS"
       THEN Return(handleCORSPreflight)
       ELSE IF Missing(request.urlParam)
       THEN Return(JsonError("Missing 'url' query parameter", 400))
       ELSE IF ~targetUrl.ok
       THEN Return(JsonError("Invalid target URL", 400))
       ELSE Await([url |-> targetUrl.href,
                   method |-> request.method,
                   headers |-> buildForwardHeaders(request),
                   body |-> IF request.method \in {"POST", "PUT", "PATCH", "DELETE"}
                            THEN "blob" ELSE "none",
                   redirect |-> "follow"],
                  "awaitEnhanced")

\* onRequest of functions/proxy.js up to its await of fetch
onRequestEnhanced(request) ==
    LET targetUrl == createUrl(request.urlParam.value)
    IN IF Missing(request.urlParam)
       THEN Return(JsonError("Missing 'url' query parameter", 400))
       ELSE IF request.method = "OPTIONS"
       THEN Return(handleCORSPreflight)
       ELSE IF ~targetUrl.ok
       THEN Return(JsonError("Invalid target URL", 400))
       ELSE Await([url |-> targetUrl.href,
                   method |-> request.method,
                   headers |-> buildForwardHeaders(request),
                   body |-> IF request.method \in {"POST", "PUT", "PATCH", "DELETE"}
                            THEN "blob" ELSE "none",
                   redirect |-> "follow"],
                  "awaitEnhanced")

\* onRequest of functions/proxy.js from the upstream response on
relayEnhanced(response) ==
    [status |-> response.status,
     headers |-> buildResponseHeaders(response),
     location |-> response.location,
     body |-> "upstream"]

---------------------------------------------------------------------------
(* The pass-through proxy of the second file                               *)

\* onRequest up to its await of fetch; new URL(targetUrl) is inside the try,
\* whose catch answers 500
onRequestPassThrough(request) ==
    LET targetUrlObj == createUrl(request.urlParam.value)
    IN IF Missing(request.urlParam)
       THEN Return(JsonError("Missing url parameter", 400))
       ELSE IF ~targetUrlObj.ok
       THEN Return(JsonError("Failed to fetch target URL", 500))
       ELSE Await([url |-> targetUrlObj.href,
                   method |-> request.method,
                   headers |-> HSet(request.headers, "host", targetUrlObj.hostname),
                   body |-> IF request.hasBody THEN "stream" ELSE "none",
                   redirect |-> "follow"],
                  "awaitPassThrough")

\* onRequest from the upstream response on
relayPassThrough(response) ==
    LET cors == HSet(HSet(HSet(response.headers,
                    "access-control-allow-origin", "*"),
                    "access-control-allow-methods", "GET, POST, PUT, DELETE, OPTIONS, HEAD, PATCH"),
                    "access-control-allow-headers", "Content-Type, Authorization, X-Requested-With")
    IN [status |-> response.status,
        headers |-> IF HHas(response.headers, "content-encoding")
                       /\ response.headers["content-encoding"] # ""
                    THEN HDelete(cors, "content-encoding") ELSE cors,
        location |-> response.location,
        body |-> "upstream"]

onRequestOptions ==
    [status |-> 204,
     headers |-> ("access-control-allow-origin" :> "*")
              @@ ("access-control-allow-methods" :> "GET, POST, PUT, DELETE, OPTIONS, HEAD, PATCH")
              @@ ("access-control-allow-headers" :> "Content-Type, Authorization, X-Requested-With")
              @@ ("access-control-max-age" :> "86400"),
     location |-> NoLoc,
     body |-> "null"]

---------------------------------------------------------------------------
(* Inbound requests and upstream responses                                 *)

Methods == {"GET", "HEAD", "POST", "PUT", "PATCH", "DELETE", "OPTIONS", "TRACE"}

InboundHeaders ==
    { ("host" :> PROXY_HOST),
      ("host" :> PROXY_HOST) @@ ("access-control-request-headers" :> "content-type"),
      ("host" :> PROXY_HOST) @@ ("authorization" :> "token") @@ ("cf-connecting-ip" :> "192.0.2.1") }

Request(method, headers, urlParam, q, path) ==
    [method |-> method, headers |-> headers,
     hasBody |-> method \in {"POST", "PUT", "PATCH", "DELETE"},
     urlParam |-> urlParam, q |-> q, path |-> path]

NoRequest == Request("", EmptyHeaders, NoParam, "", EmptyStr)

\* Request paths of the GitHub-routing handler: url.href after the origin
\* and PREFIX.
Paths ==
    { EmptyStr,
      Slash,
      Str("", "github.com", <<"u", "r", "archive", "main.zip">>),
      Str("https", "github.com", <<"u", "r", "releases", "download", "f.zip">>),
      Str("", "github.com", <<"alice", "r", "archive", "main.zip">>),
      Str("", "github.com", <<"u", "r", "blob", "main", "f.js">>),
      Str("http", "github.com", <<"u", "r", "blob", "main", "f.js">>),
      Str("", "github.com", <<"alice", "r", "blob", "main", "f.js">>),
      Str("", "github.com", <<"u", "r", "blob", "main", "releases", "notes.md">>),
      Str("", "github.com", <<"u", "r", "blob", "main", "info">>),
      Str("", "github.com", <<"u", "r", "blob", "main", "blob", "x.js">>),
      Str("", "github.com", <<"u", "r", "BLOB", "main", "f.js">>),
      Str("", "github.com", <<"u", "r", "raw", "main", "f.js">>),
      Str("", "github.com", <<"u", "r", "info", "refs">>),
      Str("", "github.com", <<"u", "r", "tags">>),
      Str("", "github.com", <<"u", "r">>),
      Str("", "raw.githubusercontent.com", <<"u", "r", "main", "f.js">>),
      Str("https", "raw.githubusercontent.com", <<"u", "r", "main", "f.js">>),
      Str("https", "gist.github.com", <<"u", "abc", "raw">>),
      Str("", "gist.github.com", <<"u">>),
      Str("https", "example.com", <<"page">>),
      Str("https", "example.com", <<"alice", "page">>),
      Str("", "example.com", <<"page">>) }

GitHubRequests ==
    { Request(m, h, NoParam, "", p) : m \in Methods, h \in InboundHeaders, p \in Paths }
    \cup { Request("GET", ("host" :> PROXY_HOST), NoParam, "github.com", p) :
             p \in {EmptyStr, Str("", "github.com", <<"u", "r", "tags">>)} }

\* Values of the 'url' query parameter.
UrlParams ==
    { NoParam,
      Param(EmptyStr),
      Param(Str("https", "example.com", <<"data.json">>)),
      Param(Str("http", "api.example.com", <<>>)),
      Param(Str("", "example.com", <<"data.json">>)) }

ProxyRequests ==
    { Request(m, h, u, "", EmptyStr) : m \in Methods, h \in InboundHeaders, u \in UrlParams }

UpstreamHeaders ==
    { ("content-type" :> "text/plain"),
      ("content-type" :> "text/html") @@ ("content-encoding" :> "gzip")
        @@ ("content-security-policy" :> "default-src 'none'")
        @@ ("content-security-policy-report-only" :> "default-src 'self'")
        @@ ("clear-site-data" :> "*")
        @@ ("set-cookie" :> "sid=1") @@ ("server" :> "GitHub.com")
        @@ ("x-powered-by" :> "Express") @@ ("cf-ray" :> "0") }

\* Location values an upstream sends: one the patterns recognize, two
\* absolute ones they do not, and a relative one.
Locations ==
    { Str("https", "github.com", <<"u", "r", "releases", "download", "f.zip">>),
      Str("https", "codeload.github.com", <<"u", "r", "zip", "main">>),
      Str("https", "objects.example.com", <<>>),
      Str("", "", <<"login">>) }

\* An upstream response; url is the URL it was fetched from, set on receipt.
UpstreamResponses ==
    { [status |-> 200, headers |-> h, location |-> NoLoc, url |-> EmptyStr] :
             h \in UpstreamHeaders }
    \cup { [status |-> 302, headers |-> h, location |-> Loc("", l), url |-> EmptyStr] :
             h \in UpstreamHeaders, l \in Locations }

NoResponse == [status |-> 0, headers |-> EmptyHeaders, location |-> NoLoc, url |-> EmptyStr]

---------------------------------------------------------------------------
(* The state machine                                                       *)

Init ==
    /\ Config \in {[jsdelivr |-> 1], [jsdelivr |-> 0]}
    /\ whiteList \in {<<>>, <<"alice">>}
    /\ pc = "idle"
    /\ handler = ""
    /\ req = NoRequest
    /\ out = NoOut
    /\ fetches = 0
    /\ received = NoResponse
    /\ resp = NoResp

Count(n) == IF n < MaxFetches THEN n + 1 ELSE n

\* The handler ran up to a return or to its first fetch.
Run(name, request, outcome) ==
    /\ handler' = name
    /\ req' = request
    /\ pc' = outcome.at
    /\ out' = outcome.out
    /\ fetches' = IF outcome.kind = "await" THEN Count(fetches) ELSE fetches
    /\ resp' = outcome.resp
    /\ UNCHANGED <<Config, whiteList, received>>

\* The handler resumed and returned.
Finish(response) ==
    /\ pc' = "done"
    /\ resp' = response
    /\ UNCHANGED <<Config, whiteList, handler, req, out, fetches, received>>

HandleRequest ==
    /\ pc = "idle"
    /\ \E r \in GitHubRequests : Run("handleRequest", r, handleRequest(r))

OnRequestEnhanced ==
    /\ pc = "idle"
    /\ \E r \in ProxyRequests : Run("onRequestEnhanced", r, onRequestEnhanced(r))

OnRequestPassThrough ==
    /\ pc = "idle"
    /\ \E r \in ProxyRequests : Run("onRequestPassThrough", r, onRequestPassThrough(r))

OnRequestOptions ==
    /\ pc = "idle"
    /\ \E r \in {x \in ProxyRequests : x.method = "OPTIONS"} :
          Run("onRequestOptions", r, Return(onRequestOptions))

\* The upstream answered a fetch of proxyFetch: processResponse returns the
\* response or follows its Location with another fetch.
ProcessResponse ==
    /\ pc = "awaitProxyFetch"
    /\ \E u \in UpstreamResponses :
        LET outcome == Catch502(processResponse(u, out))
        IN /\ pc' = outcome.at
           /\ resp' = outcome.resp
           /\ out' = IF outcome.kind = "await" THEN outcome.out ELSE out
           /\ fetches' = IF outcome.kind = "await" THEN Count(fetches) ELSE fetches
           /\ received' = [u EXCEPT !.url = out.url]
           /\ UNCHANGED <<Config, whiteList, handler, req>>

\* The upstream answered fetch(path, request): handleRequest returns it as is.
GenericReturn ==
    /\ pc = "awaitGeneric"
    /\ \E u \in UpstreamResponses :
          Finish([status |-> u.status, headers |-> u.headers,
                  location |-> u.location, body |-> "upstream"])

RelayEnhanced ==
    /\ pc = "awaitEnhanced"
    /\ \E u \in UpstreamResponses : Finish(relayEnhanced(u))

RelayPassThrough ==
    /\ pc = "awaitPassThrough"
    /\ \E u \in UpstreamResponses : Finish(relayPassThrough(u))

\* fetch rejected: the catch of the running handler answers.
FetchRejects ==
    /\ pc \in {"awaitProxyFetch", "awaitGeneric", "awaitEnhanced", "awaitPassThrough"}
    /\ Finish(CASE handler = "handleRequest" ->
                     makeResponse("EdgeOne proxy error", 502, EmptyHeaders)
                [] handler = "onRequestEnhanced" -> JsonError("Proxy Error", 500)
                [] OTHER -> JsonError("Failed to fetch target URL", 500))

Next ==
    \/ HandleRequest
    \/ OnRequestEnhanced
    \/ OnRequestPassThrough
    \/ OnRequestOptions
    \/ ProcessResponse
    \/ GenericReturn
    \/ RelayEnhanced
    \/ RelayPassThrough
    \/ FetchRejects

Spec == Init /\ [][Next]_vars

---------------------------------------------------------------------------
(* Properties                                                              *)

GitHub == handler = "handleRequest"
SimpleProxy == handler \in {"onRequestEnhanced", "onRequestPassThrough"}
Done == pc = "done"
Relayed == Done /\ resp.body = "upstream"
Preflight ==
    req.method = "OPTIONS" /\ HHas(req.headers, "access-control-request-headers")
EmptyPath == NormalizeScheme(req.path) \in {EmptyStr, Slash}
PathMode == GitHub /\ req.q = "" /\ ~EmptyPath

\* A path handleRequest routes to a relay, a redirect or a passthrough.
Routable(path) ==
    \/ checkUrl(path)
    \/ StartsWith(path, "github.com")
    \/ StartsWith(path, "raw.githubusercontent.com")
    \/ StartsWith(path, "gist.github.com")
    \/ createUrl(path).ok

\* The Location of the response processResponse last received is one it follows.
Unrecognized == received.location.present /\ ~checkUrl(received.location.url)

\* The URL a Location names for the response that carries it.
Target(response) ==
    IF response.location.url.scheme # "" THEN createUrl(response.location.url).href
    ELSE Str(response.url.scheme, response.url.host, response.location.url.segs)

\* C1: the outbound fetches of one request of the GitHub-routing flow stay
\* under a fixed maximum, whatever Locations the upstreams send: the count
\* never reaches the bound the model counts to.
C1_RedirectFollowingBounded == GitHub => fetches < MaxFetches

\* C2: a response processResponse received with a recognized Location is
\* returned with Location PREFIX + Location and without a further fetch; for
\* an unrecognized Location a fetch of its target was issued and the client
\* does not get that Location back.
C2_LocationRewrittenOrFollowed ==
    (GitHub /\ received.location.present) =>
        IF checkUrl(received.location.url)
        THEN /\ Relayed
             /\ resp.location = Loc(PREFIX, received.location.url)
             /\ out.url = received.url
        ELSE /\ out.url = Target(received)
             /\ ~(Done /\ resp.location.present
                       /\ resp.location.url = received.location.url)

\* C3: with a non-empty whitelist, a path-mode request that is no preflight
\* and whose target (matching a pattern, a GitHub host, or parseable) holds
\* no whitelisted part is answered 403, with no fetch and no redirect.
C3_WhitelistRejects ==
    LET path == NormalizeScheme(req.path)
    IN (/\ PathMode /\ ~Preflight /\ Len(whiteList) > 0
        /\ Routable(path)
        /\ ~\E k \in 1..Len(whiteList) : Includes(path, whiteList[k]))
       => /\ Done /\ resp.status = 403
          /\ fetches = 0 /\ ~resp.location.present

\* C4: with jsdelivr on, every path exp2 matches is answered by a 302 to
\* host cdn.jsdelivr.net whose path has no "blob" segment, with no fetch.
C4_BlobRedirectsToCdn ==
    (PathMode /\ Config.jsdelivr = 1 /\ exp2(NormalizeScheme(req.path)))
       => /\ Done /\ resp.status = 302 /\ fetches = 0
          /\ resp.location.present
          /\ resp.location.url.host = "cdn.jsdelivr.net"
          /\ \A i \in 1..Len(resp.location.url.segs) :
                resp.location.url.segs[i] # "blob"

\* C5: an OPTIONS request with access-control-request-headers, no q and a
\* path that is relayed directly, is a blob/raw link, begins with a GitHub
\* host or parses as a URL gets the fixed 204 preflight response, with no
\* fetch and no redirect.
C5_PreflightShortCircuits ==
    (PathMode /\ Preflight /\ Routable(NormalizeScheme(req.path)))
       => (Done /\ resp = PREFLIGHT_INIT /\ fetches = 0)

\* C6: a response the GitHub-routing handler relays from an upstream has no
\* content-security-policy, content-security-policy-report-only or
\* clear-site-data header, and has access-control-allow-origin: *.
C6_RelayedHeadersStripped ==
    (GitHub /\ Relayed) =>
        /\ ~HHas(resp.headers, "content-security-policy")
        /\ ~HHas(resp.headers, "content-security-policy-report-only")
        /\ ~HHas(resp.headers, "clear-site-data")
        /\ HHas(resp.headers, "access-control-allow-origin")
        /\ resp.headers["access-control-allow-origin"] = "*"

\* C7: the outbound request of either simple proxy has the inbound method
\* and a Host header equal to the target's hostname.
C7_MethodAndHostForwarded ==
    (SimpleProxy /\ fetches > 0) =>
        /\ out.method = req.method
        /\ HHas(out.headers, "host")
        /\ out.headers["host"] = createUrl(req.urlParam.value).hostname

\* C8: a target that is present but is no URL - a 'url' parameter that does
\* not parse, or a path that matches no pattern, begins with no GitHub host
\* and does not parse - is answered 400 with no fetch (preflights aside).
C8_MalformedTargetIs400 ==
    (/\ req.method # "OPTIONS"
     /\ \/ SimpleProxy /\ ~Missing(req.urlParam) /\ ~createUrl(req.urlParam.value).ok
        \/ PathMode /\ ~Routable(NormalizeScheme(req.path)))
       => (Done /\ resp.status = 400 /\ fetches = 0)

\* C9 as stated: a request with no target - no 'url' parameter for a simple
\* proxy, an empty path for the GitHub-routing handler - is answered 400
\* with no fetch.
C9_MissingTargetIs400 ==
    (\/ SimpleProxy /\ Missing(req.urlParam)
     \/ GitHub /\ req.q = "" /\ EmptyPath)
       => (Done /\ resp.status = 400 /\ fetches = 0)

\* C9 as amended: without a 'url' parameter either onRequest answers 400,
\* for every method, with no fetch; an empty path without q gets the help
\* page with status 200 from the GitHub-routing handler, with no fetch.
C9_MissingParamIs400EmptyPathIsHelp ==
    /\ (SimpleProxy /\ Missing(req.urlParam))
          => (Done /\ resp.status = 400 /\ fetches = 0)
    /\ (GitHub /\ req.q = "" /\ EmptyPath)
          => (Done /\ resp.status = 200 /\ resp.body = "help page" /\ fetches = 0)

\* C9, its case reached: an OPTIONS request without 'url' was answered 400
\* by onRequest of functions/proxy.js, ahead of its preflight branch.
C9_Witness ==
    /\ handler = "onRequestEnhanced" /\ req.method = "OPTIONS"
    /\ ~req.urlParam.present /\ Done /\ resp.status = 400

\* C10: once processResponse received an unrecognized Location (an absolute
\* URL), a fetch of its target was issued, in manual redirect mode, with the
\* method and the headers of the inbound request and no body, whatever the
\* method.
C10_RedirectFollowedForEveryMethod ==
    (GitHub /\ Unrecognized /\ createUrl(received.location.url).ok) =>
        out = [url |-> Target(received),
               method |-> req.method,
               headers |-> req.headers,
               body |-> "none",
               redirect |-> "manual"]

====
